---- MODULE Spec2Model ----
(***************************************************************************)
(* Model of helper_scripts/draw_graph.py: prepare_drawing, draw_nodes,     *)
(* make_legend, draw_graph and draw_graph_filtered.                        *)
(*                                                                         *)
(* Python values are represented as follows.                               *)
(*   list            a sequence                                            *)
(*   dict            a function whose DOMAIN is the set of keys            *)
(*   Optional[x]     <<>> for None, <<x>> for a value x                    *)
(*   graph G         [nodes |-> the sequence G.nodes() iterates,           *)
(*                    adj |-> a dict from two-element node sets (the       *)
(*                    undirected edges) to the edge's attribute dict,      *)
(*                    here <<>> for no "weight" key and <<w>> for          *)
(*                    weight w]                                            *)
(* Every call into networkx or matplotlib is appended to the log `calls`,  *)
(* in the order the program makes it.  The external calls themselves are   *)
(* taken to succeed: nodes are strings, every node of a list is a node of  *)
(* G and has a position in pos.                                            *)
(***************************************************************************)
EXTENDS Integers, Sequences, FiniteSets, TLC

VARIABLES
    pc,                 \* the statement group about to run
    result,             \* how the outermost call ended, if it has
    calls,              \* the log of calls into networkx and matplotlib
    G, pos,
    groups, left_nodes, right_nodes,                    \* prepare_drawing
    nodes_list, min_sizes, min_sizes_labels,            \* draw_graph_filtered
    nodes_labels_list,                                  \* draw_graph_filtered's parameter
    nodes_draw_list, _nodes_labels_list,                \* draw_graph's first two list parameters
    nodes_sizes_list, nodes_font_colors, ax, add_labels, dark_mode,
    node_colors, node_size_reduction_factor, edge_linewidth_reduction_factor,
    curved_edges, legend_labels,
    no_ax_input, edge_color, face_color,                \* draw_graph's locals
    node_size, additional_edge_args,
    idx,                \* number of iterations the current for loop has finished
    e_i, e_j            \* positions of node1 and node2 in the edge loops (1-based)

vars == <<pc, result, calls, G, pos, groups, left_nodes, right_nodes,
          nodes_list, min_sizes, min_sizes_labels, nodes_labels_list,
          nodes_draw_list, _nodes_labels_list, nodes_sizes_list,
          nodes_font_colors, ax, add_labels, dark_mode, node_colors,
          node_size_reduction_factor, edge_linewidth_reduction_factor,
          curved_edges, legend_labels, no_ax_input, edge_color, face_color,
          node_size, additional_edge_args, idx, e_i, e_j>>

inputs == <<G, pos, groups, nodes_list, min_sizes, min_sizes_labels,
            nodes_labels_list, nodes_sizes_list, nodes_font_colors, ax,
            add_labels, dark_mode, node_colors, node_size_reduction_factor,
            edge_linewidth_reduction_factor, curved_edges, legend_labels>>

----------------------------------------------------------------------------
(* Bounds of the model *)

\* the longest node list of one group, and the longest groups list
MaxLen == 2
\* the largest node size; thresholds range over 1 .. MaxSize + 1
MaxSize == 2

----------------------------------------------------------------------------
(* Python values *)

None == <<>>
Some(v) == <<v>>
IsNone(o) == Len(o) = 0
Value(o) == o[1]

Min(S) == CHOOSE m \in S : \A x \in S : m <= x

\* the elements of a list, as a set
Elems(s) == {s[i] : i \in 1..Len(s)}

SeqsUpTo(S, n) == UNION {[1..k -> S] : k \in 0..n}
Dicts(K, V) == UNION {[D -> V] : D \in SUBSET K}

Running == [kind |-> "running", val |-> "", at |-> ""]
Return(v) == [kind |-> "return", val |-> v, at |-> ""]
Raise(exc, where) == [kind |-> "raise", val |-> exc, at |-> where]

\* Python's LookupError is the base class of KeyError and IndexError
LookupError == {"KeyError", "IndexError"}

----------------------------------------------------------------------------
(* The graph *)

\* G.has_edge(u, v) of an undirected graph without self loops
has_edge(g, u, v) == {u, v} \in DOMAIN g.adj

\* whether G[u][v] has the key "weight"
has_weight(g, u, v) == ~ IsNone(g.adj[{u, v}])

\* G[u][v]["weight"]
weight_of(g, u, v) == Value(g.adj[{u, v}])

\* whether every node of the list s is a key of the dict d
HasKeys(d, s) == \A i \in 1..Len(s) : s[i] \in DOMAIN d

\* the length at which zip() stops: that of its shortest argument
ZipLen(lens) == Min(lens)

----------------------------------------------------------------------------
(* prepare_drawing *)

\* InGroups with the two branches swapped
InGroupsSwapped(node, grp) == node \notin Elems(grp)

\* the branch of the loop body: node in groups
InGroups(node, grp) == node \in Elems(grp)

\* spring_layout gives every node of G a position
spring_layout(g) == [n \in Elems(g.nodes) |-> "xy"]

\* one pass of the for loop over G.nodes(), or the layout and the return
PrepareLoop ==
    /\ pc = "prepare"
    /\ IF idx < Len(G.nodes)
       THEN LET node == G.nodes[idx + 1]
            IN  /\ IF InGroups(node, groups)
                   THEN /\ left_nodes' = Append(left_nodes, node)
                        /\ UNCHANGED right_nodes
                   ELSE /\ right_nodes' = Append(right_nodes, node)
                        /\ UNCHANGED left_nodes
                /\ idx' = idx + 1
                /\ UNCHANGED <<pc, result, pos, calls>>
       ELSE /\ pos' = spring_layout(G)
            /\ calls' = Append(calls, [fn |-> "spring_layout"])
            /\ pc' = "done"
            /\ result' = Return("pos, left_nodes, right_nodes")
            /\ UNCHANGED <<left_nodes, right_nodes, idx>>
    /\ UNCHANGED <<G, groups, nodes_list, min_sizes, min_sizes_labels,
                   nodes_labels_list, nodes_draw_list, _nodes_labels_list,
                   nodes_sizes_list, nodes_font_colors, ax, add_labels,
                   dark_mode, node_colors, node_size_reduction_factor,
                   edge_linewidth_reduction_factor, curved_edges,
                   legend_labels, no_ax_input, edge_color, face_color,
                   node_size, additional_edge_args, e_i, e_j>>

----------------------------------------------------------------------------
(* draw_graph_filtered *)

\* Keeps with > for >=
KeepsStrict(size, _min_size) == size > _min_size

\* the condition of the comprehension that builds a draw list
Keeps(size, _min_size) == size >= _min_size

\* the condition of the comprehension that builds the default labels
KeepsLabel(size, _min_size_label) == size >= _min_size_label

RECURSIVE DrawList(_, _, _)
\* [__node for __node in _nodes if _sizes[__node] >= _min_size]
DrawList(_nodes, _sizes, _min_size) ==
    IF _nodes = <<>> THEN <<>>
    ELSE LET rest == DrawList(Tail(_nodes), _sizes, _min_size)
         IN  IF Keeps(_sizes[Head(_nodes)], _min_size)
             THEN <<Head(_nodes)>> \o rest
             ELSE rest

\* DefaultLabels with the draw threshold for the label threshold
DefaultLabelsByDrawThreshold(_nodes, _sizes, _min_size, _min_size_label) ==
    [n \in {m \in Elems(_nodes) : KeepsLabel(_sizes[m], _min_size)} |-> n]

\* {__node: __node for __node in _nodes if _sizes[__node] >= _min_size_label}
DefaultLabels(_nodes, _sizes, _min_size, _min_size_label) ==
    [n \in {m \in Elems(_nodes) : KeepsLabel(_sizes[m], _min_size_label)} |-> n]

\* the label dict appended for group k (1-based) once nodes_labels_list[idx]
\* is known to exist
LabelsFor(k) ==
    IF ~ IsNone(nodes_labels_list) /\ ~ IsNone(Value(nodes_labels_list)[k])
    THEN Value(Value(nodes_labels_list)[k])
    ELSE DefaultLabels(nodes_list[k], nodes_sizes_list[k], min_sizes[k],
                       min_sizes_labels[k])

\* FilterPass with a recovery: nodes without a size are left out
FilterPassSkipping(k) ==
    LET HasSize(n) == n \in DOMAIN nodes_sizes_list[k]
        sized == SelectSeq(nodes_list[k], HasSize)
        kept == DrawList(sized, nodes_sizes_list[k], min_sizes[k])
    IN  IF ~ IsNone(nodes_labels_list) /\ Len(Value(nodes_labels_list)) < k
        THEN [exc |-> "IndexError", draw |-> <<kept>>, labels |-> <<>>]
        ELSE [exc |-> "", draw |-> <<kept>>,
              labels |-> <<[n \in Elems(kept) |-> n]>>]

\* One pass of the loop body for group k (1-based): the exception it raises,
\* if any, and what it appends to nodes_draw_list and _nodes_labels_list
\* before that.
FilterPass(k) ==
    IF ~ HasKeys(nodes_sizes_list[k], nodes_list[k])
    THEN [exc |-> "KeyError", draw |-> <<>>, labels |-> <<>>]
    ELSE LET kept == DrawList(nodes_list[k], nodes_sizes_list[k], min_sizes[k])
         IN  IF ~ IsNone(nodes_labels_list) /\ Len(Value(nodes_labels_list)) < k
             THEN [exc |-> "IndexError", draw |-> <<kept>>, labels |-> <<>>]
             ELSE [exc |-> "", draw |-> <<kept>>, labels |-> <<LabelsFor(k)>>]

\* one pass of the for loop over the zipped lists, or the call of draw_graph
FilterLoop ==
    /\ pc = "filter"
    /\ LET n == ZipLen({Len(nodes_list), Len(nodes_sizes_list),
                        Len(min_sizes), Len(min_sizes_labels)})
       IN  IF idx < n
           THEN LET pass == FilterPass(idx + 1)
                IN  /\ nodes_draw_list' = nodes_draw_list \o pass.draw
                    /\ _nodes_labels_list' = _nodes_labels_list \o pass.labels
                    /\ IF pass.exc # ""
                       THEN /\ pc' = "done"
                            /\ result' = Raise(pass.exc, "draw_graph_filtered")
                            /\ UNCHANGED idx
                       ELSE /\ idx' = idx + 1
                            /\ UNCHANGED <<pc, result>>
           ELSE /\ pc' = "setup"
                /\ idx' = 0
                /\ UNCHANGED <<result, nodes_draw_list, _nodes_labels_list>>
    /\ UNCHANGED <<calls, inputs, left_nodes, right_nodes, no_ax_input,
                   edge_color, face_color, node_size, additional_edge_args,
                   e_i, e_j>>

----------------------------------------------------------------------------
(* draw_nodes and make_legend *)

\* label_dict.get(node, "")
LabelOf(label_dict, node) ==
    IF node \in DOMAIN label_dict THEN label_dict[node] ELSE ""

\* NodeLabels with the whole label dict handed on
NodeLabelsWholeDict(node_list, label_dict) == label_dict

\* labels = {node: label_dict.get(node, "") for node in node_list}
NodeLabels(node_list, label_dict) ==
    [node \in Elems(node_list) |-> LabelOf(label_dict, node)]

\* The calls draw_nodes makes, given that every node of node_list has a size.
\* A size is kept as the pair <<size, factor>> that is divided.  The field
\* group is not an argument of the call: it records the enumerate() index of
\* the loop pass that made it.
draw_nodes(k, node_list, size_dict, labels_on, label_dict, color, font_color) ==
    LET sizes == [i \in 1..Len(node_list) |->
                     <<size_dict[node_list[i]], node_size_reduction_factor>>]
        nodes_call == [fn |-> "draw_networkx_nodes", group |-> k,
                       nodelist |-> node_list, node_size |-> sizes,
                       node_color |-> color]
        labels_call == [fn |-> "draw_networkx_labels", group |-> k,
                        labels |-> NodeLabels(node_list, label_dict),
                        font_color |-> font_color]
    IN  IF labels_on THEN <<nodes_call, labels_call>> ELSE <<nodes_call>>

\* make_legend: one patch per item of the dict, then plt.legend
make_legend(_dict) == [fn |-> "legend", handles |-> _dict]

----------------------------------------------------------------------------
(* draw_graph *)

\* AfterStage with the edges drawn before the nodes
AfterStageEdgesFirst(stage) ==
    CASE stage = "setup"  -> "sizes"
      [] stage = "sizes"  -> "edges"
      [] stage = "edges"  -> "nodes"
      [] stage = "nodes"  -> "legend"
      [] stage = "legend" -> "axis"
      [] stage = "axis"   -> "show"
      [] stage = "show"   -> "done"

\* The order of draw_graph's statement groups.
AfterStage(stage) ==
    CASE stage = "setup"  -> "nodes"
      [] stage = "nodes"  -> "sizes"
      [] stage = "sizes"  -> "edges"
      [] stage = "edges"  -> "legend"
      [] stage = "legend" -> "axis"
      [] stage = "axis"   -> "show"
      [] stage = "show"   -> "done"

\* the theme: the colours of the two branches of `if dark_mode`
ThemeStyle(dark) == IF dark THEN "cyberpunk" ELSE "seaborn-darkgrid"
ThemeEdgeColor(dark) == IF dark THEN "#A47FFF" ELSE "k"
ThemeFaceColor(dark) == IF dark THEN "#13042B" ELSE "w"

\* the figure, the theme
DrawSetup ==
    /\ pc = "setup"
    /\ no_ax_input' = (ax = "None")
    /\ edge_color' = ThemeEdgeColor(dark_mode)
    /\ face_color' = ThemeFaceColor(dark_mode)
    /\ calls' = calls
                \o (IF ax = "None" THEN <<[fn |-> "subplots"]>> ELSE <<>>)
                \o <<[fn |-> "style.use", style |-> ThemeStyle(dark_mode)]>>
    /\ idx' = 0
    /\ pc' = AfterStage("setup")
    /\ UNCHANGED <<result, inputs, left_nodes, right_nodes, nodes_draw_list,
                   _nodes_labels_list, node_size, additional_edge_args,
                   e_i, e_j>>

\* _node_colors of group k (1-based; the colour cycle entry is C{idx})
GroupColors(k, nodes_draw) ==
    IF ~ IsNone(node_colors)
    THEN [i \in 1..Len(nodes_draw) |->
             IF nodes_draw[i] \in DOMAIN Value(node_colors)
             THEN Value(node_colors)[nodes_draw[i]]
             ELSE "grey"]
    ELSE <<"C", k - 1>>

\* how many groups the zip() of the node loop yields
DrawnGroups ==
    ZipLen({Len(nodes_draw_list), Len(_nodes_labels_list),
            Len(nodes_font_colors), Len(nodes_sizes_list)})

\* one pass of the for loop that draws the groups' nodes, or its end
DrawNodes ==
    /\ pc = "nodes"
    /\ LET k == idx + 1
       IN  IF idx < DrawnGroups
           THEN IF ~ HasKeys(nodes_sizes_list[k], nodes_draw_list[k])
                THEN /\ pc' = "done"
                     /\ result' = Raise("KeyError", "draw_nodes")
                     /\ UNCHANGED <<calls, idx>>
                ELSE /\ calls' = calls \o
                            draw_nodes(k, nodes_draw_list[k],
                                       nodes_sizes_list[k], add_labels,
                                       _nodes_labels_list[k],
                                       GroupColors(k, nodes_draw_list[k]),
                                       nodes_font_colors[k])
                     /\ idx' = idx + 1
                     /\ UNCHANGED <<pc, result>>
           ELSE /\ pc' = AfterStage("nodes")
                /\ UNCHANGED <<calls, idx, result>>
    /\ UNCHANGED <<inputs, left_nodes, right_nodes, nodes_draw_list,
                   _nodes_labels_list, no_ax_input, edge_color, face_color,
                   node_size, additional_edge_args, e_i, e_j>>

\* MergedSizes with the first dict winning
MergedSizesFirstWins(first, second) ==
    [n \in DOMAIN first \cup DOMAIN second |->
        IF n \in DOMAIN first THEN first[n] ELSE second[n]]

\* dict(nodes_sizes_list[0], **nodes_sizes_list[1]): the second dict wins
MergedSizes(first, second) ==
    [n \in DOMAIN first \cup DOMAIN second |->
        IF n \in DOMAIN second THEN second[n] ELSE first[n]]

\* the edge keyword arguments of the two branches of `if curved_edges`
EdgeArgs(curved, sizes) ==
    IF curved
    THEN [graph |-> "G.copy()", connectionstyle |-> "arc3, rad=0.1",
          arrows |-> TRUE, arrowstyle |-> "-", node_size |-> Some(sizes)]
    ELSE [graph |-> "G.to_undirected()", connectionstyle |-> "",
          arrows |-> FALSE, arrowstyle |-> "", node_size |-> None]

\* node_size_dict, node_size and the edge arguments
DrawSizes ==
    /\ pc = "sizes"
    /\ IF Len(nodes_sizes_list) < 2
       THEN /\ pc' = "done"
            /\ result' = Raise("IndexError", "node_size_dict")
            /\ UNCHANGED <<node_size, additional_edge_args>>
       ELSE LET node_size_dict == MergedSizes(nodes_sizes_list[1],
                                              nodes_sizes_list[2])
            IN  IF ~ HasKeys(node_size_dict, G.nodes)
                THEN /\ pc' = "done"
                     /\ result' = Raise("KeyError", "node_size")
                     /\ UNCHANGED <<node_size, additional_edge_args>>
                ELSE /\ node_size' =
                            [i \in 1..Len(G.nodes) |->
                                <<node_size_dict[G.nodes[i]],
                                  node_size_reduction_factor>>]
                     /\ additional_edge_args' =
                            EdgeArgs(curved_edges, node_size')
                     /\ pc' = AfterStage("sizes")
                     /\ UNCHANGED result
    /\ e_i' = 1
    /\ e_j' = 1
    /\ UNCHANGED <<calls, inputs, left_nodes, right_nodes, nodes_draw_list,
                   _nodes_labels_list, no_ax_input, edge_color, face_color,
                   idx>>

\* EdgeColor with `color = edge_color` outside the loops: an edge without a
\* coloured node takes the colour of the edge drawn before it
EdgeColorCarriedOver(node1, node2) ==
    LET IsEdgeDraw(c) == c.fn = "draw_networkx_edges"
        draws == SelectSeq(calls, IsEdgeDraw)
    IN  IF ~ IsNone(node_colors) /\ node1 \in DOMAIN Value(node_colors)
        THEN Value(node_colors)[node1]
        ELSE IF ~ IsNone(node_colors) /\ node2 \in DOMAIN Value(node_colors)
             THEN Value(node_colors)[node2]
             ELSE IF draws = <<>> THEN edge_color
                  ELSE draws[Len(draws)].edge_color

\* the colour of the edge (node1, node2)
EdgeColor(node1, node2) ==
    IF ~ IsNone(node_colors) /\ node1 \in DOMAIN Value(node_colors)
    THEN Value(node_colors)[node1]
    ELSE IF ~ IsNone(node_colors) /\ node2 \in DOMAIN Value(node_colors)
         THEN Value(node_colors)[node2]
         ELSE edge_color

\* whether the body of the inner loop draws the pair
DrawsEdge(node1, node2) == has_edge(G, node1, node2)

\* the draw_networkx_edges call of one pair
EdgeCall(node1, node2) ==
    [fn |-> "draw_networkx_edges", edgelist |-> <<node1, node2>>,
     edge_color |-> EdgeColor(node1, node2),
     width |-> <<weight_of(G, node1, node2), edge_linewidth_reduction_factor>>,
     args |-> additional_edge_args]

\* InnerList with the index of the outer list
InnerListOfOuter == nodes_draw_list[1]

\* the lists the outer and the inner for loop run over
OuterList == nodes_draw_list[1]
InnerList == nodes_draw_list[2]

\* One step of the two nested for loops over nodes_draw_list[0] and
\* nodes_draw_list[1]: the body for one pair, the end of the inner loop, or
\* the end of the outer loop.
DrawEdges ==
    /\ pc = "edges"
    /\ IF Len(nodes_draw_list) < 1
       THEN /\ pc' = "done"
            /\ result' = Raise("IndexError", "nodes_draw_list[0]")
            /\ UNCHANGED <<calls, e_i, e_j>>
       ELSE IF e_i > Len(OuterList)
       THEN /\ pc' = AfterStage("edges")
            /\ UNCHANGED <<calls, e_i, e_j, result>>
       ELSE IF Len(nodes_draw_list) < 2
       THEN /\ pc' = "done"
            /\ result' = Raise("IndexError", "nodes_draw_list[1]")
            /\ UNCHANGED <<calls, e_i, e_j>>
       ELSE IF e_j > Len(InnerList)
       THEN /\ e_i' = e_i + 1
            /\ e_j' = 1
            /\ UNCHANGED <<calls, pc, result>>
       ELSE LET node1 == OuterList[e_i]
                node2 == InnerList[e_j]
            IN  IF ~ DrawsEdge(node1, node2)
                THEN /\ e_j' = e_j + 1
                     /\ UNCHANGED <<calls, e_i, pc, result>>
                ELSE IF ~ has_weight(G, node1, node2)
                THEN /\ pc' = "done"
                     /\ result' = Raise("KeyError", "weight")
                     /\ UNCHANGED <<calls, e_i, e_j>>
                ELSE /\ calls' = Append(calls, EdgeCall(node1, node2))
                     /\ e_j' = e_j + 1
                     /\ UNCHANGED <<e_i, pc, result>>
    /\ UNCHANGED <<inputs, left_nodes, right_nodes, nodes_draw_list,
                   _nodes_labels_list, no_ax_input, edge_color, face_color,
                   node_size, additional_edge_args, idx>>

\* WithLegend without the test of no_ax_input
WithLegendEvenWithAx == ~ IsNone(legend_labels)

\* whether make_legend is called
WithLegend == ~ IsNone(legend_labels) /\ no_ax_input

\* marker edges off, the face colour of the axes, the legend
DrawLegend ==
    /\ pc = "legend"
    /\ calls' = calls
                \o <<[fn |-> "set_edgecolors"]>>
                \o (IF dark_mode
                    THEN <<[fn |-> "ax.set_facecolor", color |-> face_color]>>
                    ELSE <<>>)
                \o (IF WithLegend
                    THEN <<make_legend(Value(legend_labels))>>
                    ELSE <<>>)
    /\ pc' = AfterStage("legend")
    /\ UNCHANGED <<result, inputs, left_nodes, right_nodes, nodes_draw_list,
                   _nodes_labels_list, no_ax_input, edge_color, face_color,
                   node_size, additional_edge_args, idx, e_i, e_j>>

\* ax.axis("off") and plt.tight_layout()
DrawAxisOff ==
    /\ pc = "axis"
    /\ calls' = calls \o <<[fn |-> "axis_off"], [fn |-> "tight_layout"]>>
    /\ pc' = AfterStage("axis")
    /\ UNCHANGED <<result, inputs, left_nodes, right_nodes, nodes_draw_list,
                   _nodes_labels_list, no_ax_input, edge_color, face_color,
                   node_size, additional_edge_args, idx, e_i, e_j>>

\* whether the figure is shown rather than the face colour returned
Shows == no_ax_input

\* plt.show(), or the return of the face colour
DrawShow ==
    /\ pc = "show"
    /\ IF Shows
       THEN /\ calls' = calls \o <<[fn |-> "fig.set_facecolor",
                                    color |-> face_color],
                                   [fn |-> "show"]>>
            /\ result' = Return("None")
       ELSE /\ result' = Return(face_color)
            /\ UNCHANGED calls
    /\ pc' = AfterStage("show")
    /\ UNCHANGED <<inputs, left_nodes, right_nodes, nodes_draw_list,
                   _nodes_labels_list, no_ax_input, edge_color, face_color,
                   node_size, additional_edge_args, idx, e_i, e_j>>

----------------------------------------------------------------------------
(* The calls the model explores *)

NODES == {"a", "b", "c"}
NodeOrder == <<"a", "b", "c">>
PAIRS == {{"a", "b"}, {"a", "c"}, {"b", "c"}}

\* node lists of one group, repetitions included
NodeSeqs == SeqsUpTo(NODES, MaxLen)

\* size dicts: any subset of the nodes, sizes 1 .. MaxSize
SizeDicts == Dicts(NODES, 1..MaxSize)
Thresholds == 1..(MaxSize + 1)
Sized(v) == [n \in NODES |-> v]

\* graphs on the three nodes: each pair absent, weighted, or without weight
Graph(adj) == [nodes |-> NodeOrder, adj |-> adj]
Graphs == {Graph(adj) : adj \in Dicts(PAIRS, {None, Some(2)})}
Triangle == Graph([p \in PAIRS |-> Some(2)])

\* colour dicts: a node's colour, where it has one, names the node
ColorOf(n) == CASE n = "a" -> "red" [] n = "b" -> "green" [] n = "c" -> "blue"
ColorDicts == {[n \in D |-> ColorOf(n)] : D \in SUBSET NODES}
OptColorDicts == {None} \cup {Some(d) : d \in ColorDicts}

\* label dicts: a node's label, where it has one
LabelDicts == {[n \in D |-> "label"] : D \in SUBSET NODES}
EmptyDict == [n \in {} |-> ""]

LegendDicts == {None, Some(EmptyDict), Some([n \in {"left"} |-> "red"])}
DefaultFontColors == <<"#CEECFF", "#FFD0FD">>
ThreeFontColors == <<"#CEECFF", "#FFD0FD", "k">>

\* the first n entries of a list
Take(s, n) == SubSeq(s, 1, n)

\* a call of draw_graph with the defaults of its keyword parameters
BaseCall ==
    [G |-> Triangle, groups |-> <<>>,
     nodes_list |-> <<>>, min_sizes |-> <<>>, min_sizes_labels |-> <<>>,
     nodes_labels_list |-> None,
     nodes_draw_list |-> << <<"a">>, <<"b">> >>,
     labels |-> <<EmptyDict, EmptyDict>>,
     nodes_sizes_list |-> <<Sized(1), Sized(1)>>,
     nodes_font_colors |-> DefaultFontColors,
     ax |-> "None", add_labels |-> FALSE, dark_mode |-> TRUE,
     node_colors |-> None, node_size_reduction_factor |-> 1,
     edge_linewidth_reduction_factor |-> 1, curved_edges |-> TRUE,
     legend_labels |-> None]

\* the state in which the call c starts at the statement group start
Start(c, start) ==
    /\ pc = start
    /\ result = Running
    /\ calls = <<>>
    /\ G = c.G
    /\ pos = IF start = "prepare" THEN EmptyDict ELSE spring_layout(c.G)
    /\ groups = c.groups
    /\ left_nodes = <<>>
    /\ right_nodes = <<>>
    /\ nodes_list = c.nodes_list
    /\ min_sizes = c.min_sizes
    /\ min_sizes_labels = c.min_sizes_labels
    /\ nodes_labels_list = c.nodes_labels_list
    /\ nodes_draw_list = c.nodes_draw_list
    /\ _nodes_labels_list = c.labels
    /\ nodes_sizes_list = c.nodes_sizes_list
    /\ nodes_font_colors = c.nodes_font_colors
    /\ ax = c.ax
    /\ add_labels = c.add_labels
    /\ dark_mode = c.dark_mode
    /\ node_colors = c.node_colors
    /\ node_size_reduction_factor = c.node_size_reduction_factor
    /\ edge_linewidth_reduction_factor = c.edge_linewidth_reduction_factor
    /\ curved_edges = c.curved_edges
    /\ legend_labels = c.legend_labels
    /\ no_ax_input = FALSE
    /\ edge_color = ""
    /\ face_color = ""
    /\ node_size = <<>>
    /\ additional_edge_args = EdgeArgs(FALSE, <<>>)
    /\ idx = 0
    /\ e_i = 1
    /\ e_j = 1

----------------------------------------------------------------------------
(* Calls of draw_graph *)

\* lengths of the list arguments: none, one, the two groups, a third
GroupCounts == 0..3
OneEach == << <<"a">>, <<"b">>, <<"c">> >>

\* any two draw lists over any graph
EdgeCalls ==
    \E g \in Graphs, l0 \in NodeSeqs, l1 \in NodeSeqs :
        Start([BaseCall EXCEPT !.G = g, !.nodes_draw_list = <<l0, l1>>],
              "setup")

\* any two draw lists, any colour dict, both themes
ColorCalls ==
    \E l0 \in NodeSeqs, l1 \in NodeSeqs, nc \in OptColorDicts, d \in BOOLEAN :
        Start([BaseCall EXCEPT !.nodes_draw_list = <<l0, l1>>,
                               !.node_colors = nc, !.dark_mode = d],
              "setup")

\* no, one or two size dicts of any content
SizeCalls ==
    \E sz \in SeqsUpTo(SizeDicts, 2), l0 \in {<<>>, <<"a">>},
       l1 \in {<<>>, <<"b">>}, cv \in BOOLEAN :
        Start([BaseCall EXCEPT !.nodes_sizes_list = sz,
                               !.nodes_draw_list = <<l0, l1>>,
                               !.curved_edges = cv],
              "setup")

\* list arguments of different lengths, with and without a third font colour
GroupCalls ==
    \E nd \in GroupCounts, nl \in GroupCounts, ns \in GroupCounts,
       fc \in {DefaultFontColors, ThreeFontColors}, al \in BOOLEAN :
        Start([BaseCall EXCEPT
                  !.nodes_draw_list = Take(OneEach, nd),
                  !.labels = Take(<<EmptyDict, EmptyDict, EmptyDict>>, nl),
                  !.nodes_sizes_list =
                       Take(<<Sized(1), Sized(2), Sized(1)>>, ns),
                  !.nodes_font_colors = fc,
                  !.add_labels = al],
              "setup")

\* the keyword arguments
OptionCalls ==
    \E x \in {"None", "ax"}, al \in BOOLEAN, d \in BOOLEAN,
       lg \in LegendDicts, cv \in BOOLEAN, f \in {1, 2},
       l0 \in {<<"a">>, <<"a", "c">>}, lb \in LabelDicts :
        Start([BaseCall EXCEPT
                  !.ax = x, !.add_labels = al, !.dark_mode = d,
                  !.legend_labels = lg, !.curved_edges = cv,
                  !.node_size_reduction_factor = f,
                  !.edge_linewidth_reduction_factor = f,
                  !.nodes_draw_list = <<l0, <<"b">> >>,
                  !.labels = <<lb, EmptyDict>>],
              "setup")

\* labelled draws of any two draw lists
LabelCalls ==
    \E l0 \in NodeSeqs, l1 \in NodeSeqs, lb \in LabelDicts :
        Start([BaseCall EXCEPT
                  !.add_labels = TRUE,
                  !.nodes_draw_list = <<l0, l1>>,
                  !.labels = <<lb, [n \in {"b"} |-> "label"]>>],
              "setup")

InitDraw ==
    \/ EdgeCalls
    \/ ColorCalls
    \/ SizeCalls
    \/ GroupCalls
    \/ OptionCalls
    \/ LabelCalls

NextDraw ==
    \/ DrawSetup
    \/ DrawNodes
    \/ DrawSizes
    \/ DrawEdges
    \/ DrawLegend
    \/ DrawAxisOff
    \/ DrawShow

SpecDraw == InitDraw /\ [][NextDraw]_vars

----------------------------------------------------------------------------
(* Calls of draw_graph_filtered *)

\* a call of draw_graph_filtered that keeps every node of two groups
BaseFiltered ==
    [BaseCall EXCEPT !.nodes_list = << <<"a">>, <<"b">> >>,
                     !.min_sizes = <<1, 1>>,
                     !.min_sizes_labels = <<1, 1>>,
                     !.nodes_draw_list = <<>>,
                     !.labels = <<>>]

\* the list <<x, y>>, or <<y, x>> when swap holds
Pair(x, y, swap) == IF swap THEN <<y, x>> ELSE <<x, y>>

\* sizes that rise along the node order
Ramp == [n \in NODES |-> CASE n = "a" -> 1 [] n = "b" -> 2 [] n = "c" -> MaxSize]

\* what an entry of nodes_labels_list can be
LabelEntries ==
    {None, Some(EmptyDict), Some([n \in {"a", "b"} |-> "label"])}
OptLabelLists == {None} \cup {Some(l) : l \in SeqsUpTo(LabelEntries, 2)}

\* one group of any nodes, sizes and thresholds, beside a plain one
ThresholdCalls ==
    \E l \in NodeSeqs, sz \in SizeDicts, m \in Thresholds, ml \in Thresholds,
       swap \in BOOLEAN :
        Start([BaseFiltered EXCEPT
                  !.nodes_list = Pair(l, <<"b">>, swap),
                  !.nodes_sizes_list = Pair(sz, Sized(1), swap),
                  !.min_sizes = Pair(m, 1, swap),
                  !.min_sizes_labels = Pair(ml, 1, swap)],
              "filter")

\* label lists of any shape, over any thresholds
LabelListCalls ==
    \E l \in NodeSeqs, m \in Thresholds, ml \in Thresholds,
       lbs \in OptLabelLists :
        Start([BaseFiltered EXCEPT
                  !.nodes_list = <<l, <<"b">> >>,
                  !.nodes_sizes_list = <<Ramp, Sized(1)>>,
                  !.min_sizes = <<m, 1>>,
                  !.min_sizes_labels = <<ml, 1>>,
                  !.nodes_labels_list = lbs,
                  !.add_labels = TRUE],
              "filter")

\* list arguments of different lengths
ZipCalls ==
    \E nn \in GroupCounts, ns \in GroupCounts, nm \in GroupCounts,
       nml \in GroupCounts, nl \in GroupCounts \cup {-1},
       fc \in {DefaultFontColors, ThreeFontColors} :
        Start([BaseFiltered EXCEPT
                  !.nodes_list = Take(OneEach, nn),
                  !.nodes_sizes_list =
                       Take(<<Sized(1), Sized(2), Sized(1)>>, ns),
                  !.min_sizes = Take(<<1, 1, 1>>, nm),
                  !.min_sizes_labels = Take(<<1, 2, 1>>, nml),
                  !.nodes_labels_list =
                       IF nl < 0 THEN None
                       ELSE Some(Take(<<None, None, None>>, nl)),
                  !.nodes_font_colors = fc],
              "filter")

\* any two node lists, any two thresholds
FilteredEdgeCalls ==
    \E g \in {Triangle, Graph(EmptyDict)}, l0 \in NodeSeqs, l1 \in NodeSeqs,
       m0 \in Thresholds, m1 \in Thresholds :
        Start([BaseFiltered EXCEPT
                  !.G = g,
                  !.nodes_list = <<l0, l1>>,
                  !.nodes_sizes_list = <<Ramp, Ramp>>,
                  !.min_sizes = <<m0, m1>>],
              "filter")

\* the keyword arguments handed on to draw_graph
FilteredOptionCalls ==
    \E x \in {"None", "ax"}, d \in BOOLEAN, lg \in LegendDicts,
       cv \in BOOLEAN, nc \in {None, Some([n \in {"b"} |-> "green"])},
       g \in {Triangle, Graph([p \in {{"a", "b"}} |-> None])} :
        Start([BaseFiltered EXCEPT
                  !.G = g, !.ax = x, !.dark_mode = d, !.legend_labels = lg,
                  !.curved_edges = cv, !.node_colors = nc],
              "filter")

InitFiltered ==
    \/ ThresholdCalls
    \/ LabelListCalls
    \/ ZipCalls
    \/ FilteredEdgeCalls
    \/ FilteredOptionCalls

NextFiltered ==
    \/ FilterLoop
    \/ NextDraw

SpecFiltered == InitFiltered /\ [][NextFiltered]_vars

----------------------------------------------------------------------------
(* Calls of prepare_drawing *)

\* the node orders of the graphs on some of the nodes
NodeOrders ==
    {s \in SeqsUpTo(NODES, Cardinality(NODES)) :
        \A i, j \in 1..Len(s) : s[i] = s[j] => i = j}

InitPrepare ==
    \E order \in NodeOrders, grp \in SeqsUpTo(NODES, MaxLen) :
        Start([BaseCall EXCEPT
                  !.G = [nodes |-> order, adj |-> EmptyDict],
                  !.groups = grp,
                  !.nodes_draw_list = <<>>, !.labels = <<>>,
                  !.nodes_sizes_list = <<>>],
              "prepare")

NextPrepare == PrepareLoop

SpecPrepare == InitPrepare /\ [][NextPrepare]_vars

----------------------------------------------------------------------------
(* Properties of prepare_drawing *)

\* C2: when prepare_drawing returns, left_nodes is the nodes of G that are in
\* groups and right_nodes the nodes of G that are not, each in the order of
\* G.nodes(); the two lists are disjoint and together hold every node of G
\* exactly once; an entry of groups that is no node of G is in neither.
\* While the loop runs the same holds of the nodes visited so far.
C2_PartitionByGroups ==
    LET InG(n) == \E i \in 1..Len(groups) : groups[i] = n
        NotInG(n) == ~ InG(n)
        seen == SubSeq(G.nodes, 1, idx)
    IN  /\ pc = "done" => idx = Len(G.nodes)
        /\ left_nodes = SelectSeq(seen, InG)
        /\ right_nodes = SelectSeq(seen, NotInG)
        /\ Elems(left_nodes) \cap Elems(right_nodes) = {}
        /\ \A n \in Elems(seen) :
              Cardinality({i \in 1..Len(left_nodes) : left_nodes[i] = n})
              + Cardinality({i \in 1..Len(right_nodes) : right_nodes[i] = n})
              = 1
        /\ \A i \in 1..Len(groups) :
              groups[i] \notin Elems(G.nodes) =>
                  groups[i] \notin Elems(left_nodes) \cup Elems(right_nodes)

\* a return with nodes on both sides and an entry of groups that is no node
C2_Witness ==
    /\ pc = "done"
    /\ result.kind = "return"
    /\ Len(left_nodes) >= 1
    /\ Len(right_nodes) >= 1
    /\ \E i \in 1..Len(groups) : groups[i] \notin Elems(G.nodes)

----------------------------------------------------------------------------
(* Properties of draw_graph_filtered *)

\* the number of groups the zip() of draw_graph_filtered yields
Processed ==
    Min({Len(nodes_list), Len(nodes_sizes_list), Len(min_sizes),
         Len(min_sizes_labels)})

\* draw_graph_filtered has called draw_graph
Entered == pc # "filter" /\ result.at # "draw_graph_filtered"

\* C1: the draw list of every processed group i is the nodes of nodes_list[i]
\* whose size is at least min_sizes[i] (a size equal to the threshold is
\* kept), in the order of nodes_list[i], nothing added or duplicated; and
\* draw_graph is handed one such list per processed group.
C1_DrawListIsFiltered ==
    /\ Len(nodes_draw_list) <= Processed
    /\ Entered => Len(nodes_draw_list) = Processed
    /\ \A i \in 1..Len(nodes_draw_list) :
          LET AtLeast(n) == nodes_sizes_list[i][n] >= min_sizes[i]
          IN  nodes_draw_list[i] = SelectSeq(nodes_list[i], AtLeast)

\* draw_graph was handed a list that keeps a node at the threshold, drops a
\* node below it and keeps a repeated node twice
C1_Witness ==
    /\ Entered
    /\ \E i \in 1..Len(nodes_draw_list) :
          /\ \E n \in Elems(nodes_draw_list[i]) :
                nodes_sizes_list[i][n] = min_sizes[i]
          /\ \E n \in Elems(nodes_list[i]) :
                nodes_sizes_list[i][n] < min_sizes[i]
    /\ \E i \in 1..Len(nodes_draw_list) :
          /\ Len(nodes_draw_list[i]) = 2
          /\ nodes_draw_list[i][1] = nodes_draw_list[i][2]

\* whether group i (1-based) gets the default labels
DefaultsFor(i) ==
    \/ IsNone(nodes_labels_list)
    \/ IsNone(Value(nodes_labels_list)[i])

\* C3: once draw_graph is called, the label dict of every processed group i
\* is, when nodes_labels_list is None or its entry i is None, the identity on
\* the nodes of nodes_list[i] whose size is at least min_sizes_labels[i],
\* whatever min_sizes[i] is; and otherwise the dict supplied for group i.
C3_LabelsFromLabelThreshold ==
    Entered =>
        /\ Len(_nodes_labels_list) = Processed
        /\ \A i \in 1..Processed :
              IF DefaultsFor(i)
              THEN /\ DOMAIN _nodes_labels_list[i] =
                         {n \in Elems(nodes_list[i]) :
                             nodes_sizes_list[i][n] >= min_sizes_labels[i]}
                   /\ \A n \in DOMAIN _nodes_labels_list[i] :
                         _nodes_labels_list[i][n] = n
              ELSE _nodes_labels_list[i] = Value(Value(nodes_labels_list)[i])

\* default labels that differ from what the draw threshold would give, beside
\* a group whose labels were supplied
C3_Witness ==
    /\ Entered
    /\ \E i \in 1..Processed :
          /\ DefaultsFor(i)
          /\ DOMAIN _nodes_labels_list[i] # Elems(nodes_draw_list[i])
          /\ DOMAIN _nodes_labels_list[i] # {}
    /\ \E i \in 1..Processed :
          /\ ~ DefaultsFor(i)
          /\ DOMAIN _nodes_labels_list[i] # {}

\* some node of a processed group has no size in the group's dict
SizeMissing ==
    \E i \in 1..Processed :
        \E n \in Elems(nodes_list[i]) : n \notin DOMAIN nodes_sizes_list[i]

\* C4: if a node of a processed group has no entry in that group's size dict,
\* draw_graph_filtered ends with a lookup error raised in its own loop:
\* draw_graph is never entered, so nothing is drawn and no figure is created
\* or shown.
C4_MissingSizeRaisesBeforeDrawing ==
    SizeMissing =>
        /\ pc \in {"filter", "done"}
        /\ calls = <<>>
        /\ pc = "done" =>
              /\ result.kind = "raise"
              /\ result.val \in LookupError
              /\ result.at = "draw_graph_filtered"

\* the error was raised by the second group, after the first was filtered
C4_Witness ==
    /\ SizeMissing
    /\ pc = "done"
    /\ result.val = "KeyError"
    /\ Len(nodes_draw_list) = 1
    /\ HasKeys(nodes_sizes_list[1], nodes_list[1])

\* the positions of the calls of fn in the log
CallsTo(fn) == {p \in 1..Len(calls) : calls[p].fn = fn}

\* C6: no label is drawn when add_labels is false.  When it is true, every
\* node draw is followed by the label draw of the same group, whose labels
\* have exactly the nodes of that group's draw list as keys: a drawn node
\* with a label in the group's dict gets it, a drawn node without one gets
\* the empty string, and a node of the dict that is not drawn gets no label.
C6_LabelsOnlyForDrawnNodes ==
    /\ ~ add_labels => CallsTo("draw_networkx_labels") = {}
    /\ add_labels =>
          \A p \in CallsTo("draw_networkx_nodes") :
              /\ p < Len(calls)
              /\ calls[p + 1].fn = "draw_networkx_labels"
              /\ calls[p + 1].group = calls[p].group
    /\ \A p \in CallsTo("draw_networkx_labels") :
          LET k == calls[p].group
              drawn == calls[p].labels
          IN  /\ add_labels
              /\ DOMAIN drawn = Elems(nodes_draw_list[k])
              /\ \A n \in DOMAIN drawn :
                    drawn[n] = IF n \in DOMAIN _nodes_labels_list[k]
                               THEN _nodes_labels_list[k][n]
                               ELSE ""

\* a label draw in which a drawn node has no label in the dict and a node of
\* the dict is not drawn (the label threshold is below the draw threshold)
C6_Witness ==
    \E p \in CallsTo("draw_networkx_labels") :
        LET k == calls[p].group
        IN  /\ min_sizes_labels[k] < min_sizes[k]
            /\ DOMAIN _nodes_labels_list[k] \ Elems(nodes_draw_list[k]) # {}
            /\ Elems(nodes_draw_list[k]) # {}
            /\ \E q \in CallsTo("draw_networkx_labels") :
                  \E n \in DOMAIN calls[q].labels : calls[q].labels[n] = ""

----------------------------------------------------------------------------
(* Properties of draw_graph *)

\* the call returned
Completed == pc = "done" /\ result.kind = "return"

\* the place of a call in the fixed sequence of draw_graph
Rank(fn) ==
    CASE fn = "subplots" -> 0
      [] fn = "style.use" -> 1
      [] fn \in {"draw_networkx_nodes", "draw_networkx_labels"} -> 2
      [] fn = "draw_networkx_edges" -> 3
      [] fn \in {"set_edgecolors", "ax.set_facecolor", "legend"} -> 4
      [] fn = "axis_off" -> 5
      [] fn = "tight_layout" -> 6
      [] fn = "fig.set_facecolor" -> 7
      [] fn = "show" -> 8

\* C5: the calls into the libraries come in a fixed order: the figure and the
\* theme, the node draw of group 1, 2, ... (each followed by its label draw,
\* if any), the edge draws, the legend step, axis off, and last the show.  No
\* edge is drawn before every group's nodes are, the axis is switched off only
\* after the legend step, and the figure is shown only with no axes supplied
\* and after all the rest.
C5_FixedCallOrder ==
    /\ \A p \in 1..(Len(calls) - 1) :
          Rank(calls[p].fn) <= Rank(calls[p + 1].fn)
    /\ \A p, q \in CallsTo("draw_networkx_nodes") :
          p < q => calls[p].group < calls[q].group
    /\ \A p \in CallsTo("draw_networkx_nodes") :
          /\ calls[p].group =
                Cardinality({q \in CallsTo("draw_networkx_nodes") : q <= p})
          /\ calls[p].nodelist = nodes_draw_list[calls[p].group]
    /\ \A p \in CallsTo("draw_networkx_labels") :
          /\ p > 1
          /\ calls[p - 1].fn = "draw_networkx_nodes"
          /\ calls[p - 1].group = calls[p].group
    /\ CallsTo("draw_networkx_edges") # {} =>
          Cardinality(CallsTo("draw_networkx_nodes")) = DrawnGroups
    /\ CallsTo("axis_off") # {} =>
          /\ CallsTo("set_edgecolors") # {}
          /\ (~ IsNone(legend_labels) /\ ax = "None") => CallsTo("legend") # {}
    /\ CallsTo("show") # {} =>
          /\ ax = "None"
          /\ CallsTo("show") = {Len(calls)}
          /\ CallsTo("axis_off") # {}
          /\ CallsTo("tight_layout") # {}

\* a call that drew three groups with labels, an edge and the legend, and
\* showed the figure
C5_Witness ==
    /\ Completed
    /\ Cardinality(CallsTo("draw_networkx_nodes")) = 3
    /\ Cardinality(CallsTo("draw_networkx_labels")) = 3
    /\ CallsTo("draw_networkx_edges") # {}
    /\ CallsTo("show") # {}

\* C7: with axes supplied, no figure is created or shown, no legend is drawn
\* even if legend_labels is given, and a call that returns returns the face
\* colour of the theme, "#13042B" in dark mode and "w" otherwise.  With no
\* axes supplied a figure is created first, and a call that returns has drawn
\* the legend exactly when legend_labels is not None, has shown the figure
\* and returns None.
C7_OutcomeDependsOnAx ==
    /\ ax # "None" =>
          /\ CallsTo("subplots") = {}
          /\ CallsTo("legend") = {}
          /\ CallsTo("show") = {}
          /\ Completed => result.val = IF dark_mode THEN "#13042B" ELSE "w"
    /\ ax = "None" =>
          /\ pc # "setup" => CallsTo("subplots") = {1}
          /\ IsNone(legend_labels) => CallsTo("legend") = {}
          /\ Completed =>
                /\ Cardinality(CallsTo("legend")) =
                      IF IsNone(legend_labels) THEN 0 ELSE 1
                /\ CallsTo("show") = {Len(calls)}
                /\ result.val = "None"

\* a light-mode call with axes and legend labels supplied has returned
C7_Witness ==
    /\ Completed
    /\ ax # "None"
    /\ ~ IsNone(legend_labels)
    /\ ~ dark_mode
    /\ result.val = "w"

\* the loop that draws the groups' nodes has ended
NodesDrawn == pc \notin {"setup", "nodes"} /\ result.at # "draw_nodes"

\* the statements that look the sizes up have run to their end
SizesLookedUp ==
    /\ NodesDrawn
    /\ pc # "sizes"
    /\ result.at \notin {"node_size_dict", "node_size"}

\* fewer than two size dicts, or a node of G that is a key of neither
SizeLacking ==
    \/ Len(nodes_sizes_list) < 2
    \/ \E n \in Elems(G.nodes) :
          n \notin DOMAIN nodes_sizes_list[1] \cup DOMAIN nodes_sizes_list[2]

\* C8: once the groups' nodes are drawn, draw_graph looks up a size for every
\* node of G, drawn or not, in the merge of the first two size dicts, the
\* second winning on a shared key, whatever curved_edges is.  With fewer than
\* two size dicts, or a node of G in neither, the call ends there with a
\* lookup error: every group's nodes are drawn by then and no edge is.
C8_EveryGraphNodeNeedsASize ==
    /\ (NodesDrawn /\ SizeLacking) =>
          /\ pc \in {"sizes", "done"}
          /\ CallsTo("draw_networkx_edges") = {}
          /\ Cardinality(CallsTo("draw_networkx_nodes")) = DrawnGroups
          /\ pc = "done" =>
                /\ result.kind = "raise"
                /\ result.val \in LookupError
                /\ result.at \in {"node_size_dict", "node_size"}
                /\ Len(nodes_sizes_list) < 2 =>
                      result = Raise("IndexError", "node_size_dict")
    /\ SizesLookedUp =>
          /\ ~ SizeLacking
          /\ Len(node_size) = Len(G.nodes)
          /\ \A i \in 1..Len(G.nodes) :
                LET n == G.nodes[i]
                IN  node_size[i] =
                        <<IF n \in DOMAIN nodes_sizes_list[2]
                          THEN nodes_sizes_list[2][n]
                          ELSE nodes_sizes_list[1][n],
                          node_size_reduction_factor>>

\* a call with straight edges that drew a node and then failed on the size
\* of a node of G it does not draw
C8_Witness ==
    /\ pc = "done"
    /\ result = Raise("KeyError", "node_size")
    /\ ~ curved_edges
    /\ \E p \in CallsTo("draw_networkx_nodes") : Len(calls[p].nodelist) > 0
    /\ \E n \in Elems(G.nodes) :
          /\ n \notin DOMAIN nodes_sizes_list[1] \cup DOMAIN nodes_sizes_list[2]
          /\ \A k \in 1..Len(nodes_draw_list) : n \notin Elems(nodes_draw_list[k])

\* the pairs of the edge draws, in the order of the calls
DrawnPairs ==
    LET IsEdgeDraw(c) == c.fn = "draw_networkx_edges"
        draws == SelectSeq(calls, IsEdgeDraw)
    IN  [p \in 1..Len(draws) |-> draws[p].edgelist]

\* the pairs (n1, n2) of nodes_draw_list[0] x nodes_draw_list[1] that are
\* edges of G, one per occurrence, the first list outermost
CrossPairs ==
    IF Len(nodes_draw_list) < 2 THEN <<>>
    ELSE LET first == nodes_draw_list[1]
             second == nodes_draw_list[2]
             width == Len(second)
             all == [k \in 1..(Len(first) * width) |->
                        <<first[((k - 1) \div width) + 1],
                          second[((k - 1) % width) + 1]>>]
             IsEdge(pr) == {pr[1], pr[2]} \in DOMAIN G.adj
         IN  SelectSeq(all, IsEdge)

IsPrefix(s, t) == Len(s) <= Len(t) /\ s = SubSeq(t, 1, Len(s))

\* no node occurs in the draw lists of two groups
DisjointDrawLists ==
    \A g, h \in 1..Len(nodes_draw_list) :
        g # h => Elems(nodes_draw_list[g]) \cap Elems(nodes_draw_list[h]) = {}

\* the edges drawn are the cross pairs: all of them once the call returns,
\* the first of them while it runs or when it fails
EdgesAreCrossPairs ==
    /\ IsPrefix(DrawnPairs, CrossPairs)
    /\ Completed => DrawnPairs = CrossPairs

\* no drawn edge has an endpoint outside its draw list, joins two nodes of
\* one draw list, or touches a third or later group
NoOtherEdges ==
    \A p \in 1..Len(DrawnPairs) :
        LET n1 == DrawnPairs[p][1]
            n2 == DrawnPairs[p][2]
        IN  /\ n1 \in Elems(nodes_draw_list[1])
            /\ n2 \in Elems(nodes_draw_list[2])
            /\ \A g \in 1..Len(nodes_draw_list) :
                  ~ ({n1, n2} \subseteq Elems(nodes_draw_list[g]))
            /\ \A g \in 3..Len(nodes_draw_list) :
                  /\ n1 \notin Elems(nodes_draw_list[g])
                  /\ n2 \notin Elems(nodes_draw_list[g])

\* C9 as stated: the edges drawn are exactly the pairs (n1, n2) with n1 in
\* nodes_draw_list[0], n2 in nodes_draw_list[1] and G.has_edge(n1, n2), one
\* draw per occurrence, so that no edge with an endpoint outside its draw
\* list, between two nodes of one draw list or touching a third or later
\* group is drawn.
C9_AsStated == EdgesAreCrossPairs /\ NoOtherEdges

\* C9 amended: the edges drawn are exactly those pairs; and when no node
\* occurs in two draw lists, no edge with an endpoint outside its draw list,
\* between two nodes of one draw list or touching a third or later group is
\* drawn.
C9_EdgesAreCrossPairs ==
    /\ EdgesAreCrossPairs
    /\ DisjointDrawLists => NoOtherEdges

\* a call that returned after drawing an edge between the first two of three
\* disjoint groups, the third joined to both by edges of G
C9_Witness ==
    /\ Completed
    /\ DisjointDrawLists
    /\ Len(nodes_draw_list) = 3
    /\ Cardinality(CallsTo("draw_networkx_nodes")) = 3
    /\ Len(DrawnPairs) = 1
    /\ \E n \in Elems(nodes_draw_list[3]) :
          /\ has_edge(G, nodes_draw_list[1][1], n)
          /\ has_edge(G, nodes_draw_list[2][1], n)

\* the colour C10 gives the edge (n1, n2)
ColorByPrecedence(n1, n2) ==
    IF ~ IsNone(node_colors) /\ n1 \in DOMAIN Value(node_colors)
    THEN Value(node_colors)[n1]
    ELSE IF ~ IsNone(node_colors) /\ n2 \in DOMAIN Value(node_colors)
         THEN Value(node_colors)[n2]
         ELSE IF dark_mode THEN "#A47FFF" ELSE "k"

\* C10: every drawn edge (n1, n2) has the colour node_colors[n1] if
\* node_colors is given and has n1, else node_colors[n2] if it is given and
\* has n2, else the edge colour of the theme, "#A47FFF" in dark mode and "k"
\* in light mode; it depends on nothing else, the edges drawn before it
\* included.
C10_EdgeColorPrecedence ==
    \A p \in CallsTo("draw_networkx_edges") :
        calls[p].edge_color =
            ColorByPrecedence(calls[p].edgelist[1], calls[p].edgelist[2])

\* an edge in the theme colour drawn after an edge in the colour of its
\* second node
C10_Witness ==
    /\ ~ IsNone(node_colors)
    /\ \E p, q \in CallsTo("draw_networkx_edges") :
          /\ p < q
          /\ calls[p].edgelist[2] \in DOMAIN Value(node_colors)
          /\ calls[p].edgelist[1] \notin DOMAIN Value(node_colors)
          /\ calls[p].edge_color = Value(node_colors)[calls[p].edgelist[2]]
          /\ calls[q].edge_color = "k"

====
